---- MODULE Spec2Model ----
(***************************************************************************)
(* HSX interpreter: the HSXRuntime class (src/hsx-runtime.js, v0.67, and   *)
(* its earlier revision src/unnamed/part_000, v0.64) and the HSXEngine     *)
(* class (src/Engine.js).                                                  *)
(*                                                                         *)
(* Text is a sequence of atoms.  An atom is a chunk of characters that the *)
(* code never looks inside: a keyword ("hsx render"), a separator ("eq",   *)
(* "+", ","), a blank " ", a newline, a name.  Every string operation of   *)
(* the source (split, trim, replace, startsWith, ...) is computed on these *)
(* sequences.  The cursor i is 1-based here (JavaScript's i + 1).          *)
(***************************************************************************)
EXTENDS Integers, Sequences, FiniteSets, TLC

\* ------------------------------------------------------------------ bounds
\* source lines handed to one instance, summed over its calls
MaxLines == 3
\* execute and _runHSXBlock calls made on one instance
MaxCalls == 2
\* lines of a body handed directly to _runHSXBlock
MaxBlockLines == 1
\* call-stack frames available to nested module invocations
MaxStack == 3

\* ------------------------------------------------------------------- text
NL == "\n"
SP == " "
QUOTE == "\""

IsWS(a) == a \in {SP, NL}

RECURSIVE TrimStart(_)
TrimStart(s) == IF s # <<>> /\ IsWS(Head(s)) THEN TrimStart(Tail(s)) ELSE s

RECURSIVE TrimEnd(_)
TrimEnd(s) ==
  IF s # <<>> /\ IsWS(s[Len(s)]) THEN TrimEnd(SubSeq(s, 1, Len(s) - 1)) ELSE s

Trim(s) == TrimStart(TrimEnd(s))

StartsWith(s, p) == Len(s) >= Len(p) /\ SubSeq(s, 1, Len(p)) = p

EndsWith(s, p) == Len(s) >= Len(p) /\ SubSeq(s, Len(s) - Len(p) + 1, Len(s)) = p

\* first position at which p occurs in s, 0 when it does not
IndexOf(s, p) ==
  LET hits == {k \in 1..(Len(s) - Len(p) + 1) : SubSeq(s, k, k + Len(p) - 1) = p}
  IN  IF hits = {} THEN 0 ELSE CHOOSE k \in hits : \A h \in hits : k <= h

Includes(s, p) == IndexOf(s, p) # 0

\* String.prototype.replace with a string pattern: the first occurrence only
Replace(s, p, r) ==
  LET k == IndexOf(s, p)
  IN  IF k = 0 THEN s
      ELSE SubSeq(s, 1, k - 1) \o r \o SubSeq(s, k + Len(p), Len(s))

\* split on every atom of seps (a one-atom separator, or a regex alternation)
RECURSIVE SplitAny(_, _)
SplitAny(s, seps) ==
  LET hits == {k \in 1..Len(s) : s[k] \in seps}
  IN  IF hits = {} THEN <<s>>
      ELSE LET k == CHOOSE x \in hits : \A h \in hits : x <= h
           IN  <<SubSeq(s, 1, k - 1)>> \o SplitAny(SubSeq(s, k + 1, Len(s)), seps)

Split(s, sep) == SplitAny(s, {sep})

RECURSIVE Join(_, _)
Join(ls, sep) ==
  IF ls = <<>> THEN <<>>
  ELSE IF Len(ls) = 1 THEN ls[1]
  ELSE ls[1] \o <<sep>> \o Join(Tail(ls), sep)

MapTrim(ls) == [k \in 1..Len(ls) |-> Trim(ls[k])]

MapTrimEnd(ls) == [k \in 1..Len(ls) |-> TrimEnd(ls[k])]

FilterNonEmpty(ls) == SelectSeq(ls, LAMBDA l : l # <<>>)

\* the characters of the fence tags, for String.prototype.slice
Chars(a) ==
  CASE a = "{js"  -> <<"{", "j", "s">>
    [] a = "{py"  -> <<"{", "p", "y">>
    [] a = "{hsx" -> <<"{", "h", "s", "x">>
    [] OTHER      -> <<a>>

RECURSIVE LineChars(_)
LineChars(s) == IF s = <<>> THEN <<>> ELSE Chars(Head(s)) \o LineChars(Tail(s))

\* s.slice(from, to) on characters, 0-based and end-exclusive as in JavaScript
Slice(s, from, to) ==
  LET cs == LineChars(s) IN SubSeq(cs, from + 1, IF to < Len(cs) THEN to ELSE Len(cs))

\* a registry: a JavaScript object used as a name -> value table
EmptyReg == [x \in {} |-> <<>>]

Put(reg, k, v) == [x \in (DOMAIN reg) \cup {k} |-> IF x = k THEN v ELSE reg[x]]

Has(reg, k) == k \in DOMAIN reg

\* a logged or collaborator event
Ev(kind, a) == [ev |-> kind, arg |-> a, of |-> <<>>]

EvIn(kind, a, owner) == [ev |-> kind, arg |-> a, of |-> owner]


\* ------------------------------------------------- HSXRuntime: the handlers
KwAttachImage == <<"hsx attach image">>
KwAttachVideo == <<"hsx attach video">>
KwAttachAudio == <<"hsx attach audio">>
KwDefine == <<"hsx define component">>
KwEnd == <<"hsx end">>
KwRender == <<"hsx render">>
KwSecurity == <<"hsx security">>
KwModules == <<"hsx modules:">>
KwFunny == <<"(funny)">>
KwFun == <<"hsx:", "fun">>
KwNew == <<"hsx:", "new">>
KwCreateBlock == <<"(hsx)", SP, "create new block">>
KwMetaTag == <<"(hsx)", SP, "make new meta data tag">>

\* the regular expression /"(.*?)"/: the text between the first two quotes
HasQuoted(line) == Cardinality({k \in 1..Len(line) : line[k] = QUOTE}) >= 2

Quoted(line) ==
  LET qs == {k \in 1..Len(line) : line[k] = QUOTE}
      a  == CHOOSE k \in qs : \A h \in qs : k <= h
      b  == CHOOSE k \in qs \ {a} : \A h \in qs \ {a} : k <= h
  IN  SubSeq(line, a + 1, b - 1)

_extractQuotes(line) == IF HasQuoted(line) THEN Quoted(line) ELSE <<>>

MediaType(line) ==
  IF StartsWith(line, KwAttachImage) THEN "img"
  ELSE IF StartsWith(line, KwAttachVideo) THEN "video" ELSE "audio"

\* the block scanner: the first index >= from among terms, the positions of
\* the terminator lines,
\* Len(ls) + 1 when the input ends first (while (i < lines.length && ...))
ScanEnd(ls, from, terms) ==
  LET hits == {k \in from..Len(ls) : k \in terms}
  IN  IF hits = {} THEN Len(ls) + 1
      ELSE CHOOSE k \in hits : \A h \in hits : k <= h

\* body += lines[i] + "\n" for the lines a..b
RECURSIVE BodyText(_, _, _)
BodyText(ls, a, b) ==
  IF a > b THEN <<>> ELSE ls[a] \o <<NL>> \o BodyText(ls, a + 1, b)

IsEndMarker(l) == StartsWith(l, KwEnd)

\* /^}\s*$/
IsCloser(l) == l # <<>> /\ Head(l) = "}" /\ \A k \in 2..Len(l) : IsWS(l[k])

IsFunnyHeader(l) == StartsWith(l, KwFunny)

EndMarkers(ls) == {k \in 1..Len(ls) : IsEndMarker(ls[k])}

Closers(ls) == {k \in 1..Len(ls) : IsCloser(ls[k])}

FunnyHeaders(ls) == {k \in 1..Len(ls) : IsFunnyHeader(ls[k])}

_runJSNow(code, domSafe, hostOk) ==
  <<Ev("runJS", code), Ev(IF hostOk THEN "jsExecuted" ELSE "jsError", <<>>)>>

\* _runJS: the DOM-safe form only registers a DOMContentLoaded listener
_runJS(code, domSafe, hostOk) ==
  <<Ev(IF domSafe THEN "deferJS" ELSE "runJS", code),
    Ev(IF hostOk THEN "jsExecuted" ELSE "jsError", <<>>)>>

_runPy(code, pyo, hostOk) ==
  IF pyo
  THEN <<Ev("runPy", code), Ev(IF hostOk THEN "pyExecuted" ELSE "pyError", <<>>)>>
  ELSE <<>>

SimpleModule == [kind |-> "simple", mods |-> <<>>]

CombModule(ms) == [kind |-> "comb", mods |-> ms]

RECURSIVE _runModule(_, _, _, _)
RECURSIVE CombBody(_, _, _, _)
RECURSIVE CombBodyStops(_, _, _, _)
CombBodyStops(ms, mods, depth, owner) ==
  IF ms = <<>> THEN <<>>
  ELSE LET r == _runModule(Head(ms), mods, depth, owner)
       IN  IF r[1].ev \in {"moduleNotFound", "moduleError"} THEN r
           ELSE r \o CombBodyStops(Tail(ms), mods, depth, owner)

\* for (let m of mods) await this._runModule(m)
CombBody(ms, mods, depth, owner) ==
  IF ms = <<>> THEN <<>>
  ELSE _runModule(Head(ms), mods, depth, owner)
       \o CombBody(Tail(ms), mods, depth, owner)

\* depth frames are in use; a call that needs more throws a RangeError, which
\* the try around the call catches
_runModule(name, mods, depth, owner) ==
  IF ~Has(mods, name) THEN <<EvIn("moduleNotFound", name, owner)>>
  ELSE IF depth >= MaxStack THEN <<EvIn("moduleError", name, owner)>>
  ELSE <<EvIn("moduleCall", name, owner)>>
       \o (IF mods[name].kind = "comb"
           THEN CombBody(mods[name].mods, mods, depth + 1, name)
                \o <<EvIn("combinedExecuted", name, name)>>
           ELSE <<EvIn("moduleLog", name, name)>>)
       \o <<EvIn("moduleExecuted", name, owner)>>

\* _handleModules(cmd): the modules registry after the command
_handleModules(cmd, mods) ==
  IF StartsWith(cmd, <<"Load">>) THEN mods
  ELSE
    LET parts   == Split(cmd, ">")
        created ==
          IF StartsWith(cmd, <<"create">>) /\ Len(parts) >= 2 /\ Trim(parts[2]) # <<>>
          THEN Put(mods, Trim(parts[2]), SimpleModule)
          ELSE mods
    IN  IF StartsWith(cmd, <<"comb", SP, "eq">>)
        THEN LET ms == MapTrim(Split(Split(cmd, "eq")[2], "+"))
             IN  Put(created, Join(ms, "+"), CombModule(ms))
        ELSE created

_parseAttachmentLastPiece(line, atts) ==
  LET parts  == Split(line, "eq")
      key    == Trim(Replace(parts[1], KwNew, <<>>))
      pieces == MapTrim(Tail(SplitAny(line, {"eq", "-"})))
  IN  IF Includes(line, <<",">>)
      THEN IF Len(parts) < 2
           THEN [threw |-> TRUE, attachments |-> atts]
           ELSE [threw |-> FALSE,
                 attachments |-> Put(atts, key, MapTrim(Split(parts[2], ",")))]
      ELSE [threw |-> FALSE,
            attachments |-> Put(atts, key, IF pieces = <<>> THEN <<>>
                                           ELSE <<pieces[Len(pieces)]>>)]

\* _parseAttachmentLegacy(line): split("eq")[1] is undefined when the line
\* has a comma and no "eq", and calling split on it throws a TypeError
_parseAttachmentLegacy(line, atts) ==
  LET parts == Split(line, "eq")
      key   == Trim(Replace(parts[1], KwNew, <<>>))
  IN  IF Includes(line, <<",">>)
      THEN IF Len(parts) < 2
           THEN [threw |-> TRUE, attachments |-> atts]
           ELSE [threw |-> FALSE,
                 attachments |-> Put(atts, key, MapTrim(Split(parts[2], ",")))]
      ELSE [threw |-> FALSE,
            attachments |-> Put(atts, key, MapTrim(Tail(SplitAny(line, {"eq", "-"}))))]

\* line.replace("{js","").replace("}","").trim()
InlineCode(line, tag) == Trim(Replace(Replace(line, <<tag>>, <<>>), <<"}">>, <<>>))

IsModuleName(line) == EndsWith(line, <<".ps">>) \/ EndsWith(line, <<".ks">>)

FunLine(line, mods, pyo, hostOk) ==
  IF IsModuleName(line) THEN _runModule(line, mods, 0, <<>>)
  ELSE IF StartsWith(line, <<"{js">>) THEN _runJS(InlineCode(line, "{js"), FALSE, hostOk)
  ELSE IF StartsWith(line, <<"{py">>) THEN _runPy(InlineCode(line, "{py"), pyo, hostOk)
  ELSE <<Ev("runJS", line), Ev(IF hostOk THEN "funExecuted" ELSE "funError", <<>>)>>

RECURSIVE FunLines(_, _, _, _)
FunLines(ls, mods, pyo, hostOk) ==
  IF ls = <<>> THEN <<>>
  ELSE FunLine(Head(ls), mods, pyo, hostOk) \o FunLines(Tail(ls), mods, pyo, hostOk)

_runFun(code, mods, pyo, hostOk) ==
  FunLines(FilterNonEmpty(MapTrim(SplitAny(code, {NL, ";"}))), mods, pyo, hostOk)

\* one line of the body of _runHSXBlock; st = [attachments, emitted, threw]
HSXLine(line, st, mods, pyo, hostOk) ==
  IF line = <<>> THEN st
  ELSE IF IsModuleName(line)
  THEN [st EXCEPT !.emitted = @ \o _runModule(Trim(line), mods, 0, <<>>)]
  ELSE IF Includes(line, <<"eq">>) \/ Includes(line, <<"-">>) \/ Includes(line, <<",">>)
  THEN LET r == _parseAttachmentLegacy(line, st.attachments)
       IN  IF r.threw
           THEN [st EXCEPT !.threw = TRUE, !.emitted = @ \o <<Ev("typeError", line)>>]
           ELSE [st EXCEPT !.attachments = r.attachments,
                           !.emitted = @ \o <<Ev("attachmentStored", line)>>]
  ELSE IF StartsWith(line, KwFun)
  THEN [st EXCEPT !.emitted = @ \o _runFun(Trim(Replace(line, KwFun, <<>>)), mods, pyo, hostOk)]
  ELSE IF StartsWith(line, <<"{js">>)
  THEN [st EXCEPT !.emitted = @ \o _runJS(InlineCode(line, "{js"), FALSE, hostOk)]
  ELSE IF StartsWith(line, <<"{py">>)
  THEN [st EXCEPT !.emitted = @ \o _runPy(InlineCode(line, "{py"), pyo, hostOk)]
  ELSE st

RECURSIVE HSXLines(_, _, _, _, _)
HSXLines(ls, st, mods, pyo, hostOk) ==
  IF ls = <<>> \/ st.threw THEN st
  ELSE HSXLines(Tail(ls), HSXLine(Head(ls), st, mods, pyo, hostOk), mods, pyo, hostOk)

\* the gate of _runHSXBlock: the body is processed when this holds
BlockRunsInverted(sbx) == ~sbx

BlockRuns(sbx) == sbx

\* _runHSXBlock(code) of either revision
_runHSXBlock(rv, code, sbx, atts, mods, pyo, hostOk) ==
  LET st0 == [attachments |-> atts, emitted |-> <<>>, threw |-> FALSE]
  IN  IF ~BlockRuns(sbx)
      THEN [st0 EXCEPT !.emitted = <<Ev("hsxSkipped", <<>>)>>]
      ELSE IF rv = "v064"
      THEN [st0 EXCEPT !.emitted = <<Ev("hsxRunLog", code)>>]
      ELSE HSXLines(MapTrim(Split(code, NL)), st0, mods, pyo, hostOk)

\* whether a handler's events hand code to the ScriptHost
AsksHost(es) == \E k \in 1..Len(es) : es[k].ev \in {"deferJS", "runJS", "runPy"}

FenceNone(atts) ==
  [handler |-> "none", ran |-> FALSE, emitted |-> <<>>, attachments |-> atts,
   threw |-> FALSE]

FenceHSX(rv, block, sbx, atts, mods, pyo, hostOk) ==
  LET r == _runHSXBlock(rv, block, sbx, atts, mods, pyo, hostOk)
  IN  [handler |-> "_runHSXBlock", ran |-> r.emitted # <<Ev("hsxSkipped", <<>>)>>,
       emitted |-> r.emitted, attachments |-> r.attachments, threw |-> r.threw]

\* hsx-runtime.js: the tag is line.slice(1, 3)
Fence067(line, block, sbx, atts, mods, pyo, hostOk) ==
  LET type == Slice(line, 1, 3)
  IN  IF type = <<"j", "s">>
      THEN [FenceNone(atts) EXCEPT !.handler = "_runJS", !.ran = TRUE,
                                   !.emitted = _runJS(block, TRUE, hostOk)]
      ELSE IF type = <<"p", "y">>
      THEN [FenceNone(atts) EXCEPT !.handler = "_runPy", !.ran = pyo,
                                   !.emitted = _runPy(block, pyo, hostOk)]
      ELSE IF type = <<"h", "s", "x">>
      THEN FenceHSX("v067", block, sbx, atts, mods, pyo, hostOk)
      ELSE FenceNone(atts)

\* the v0.64 revision: one test per tag, the js and py bodies run in place
Fence064(line, block, sbx, atts, mods, pyo, hostOk) ==
  IF StartsWith(line, <<"{js">>)
  THEN IF Trim(block) # <<>>
       THEN [FenceNone(atts) EXCEPT !.handler = "inlineJS", !.ran = TRUE,
                                    !.emitted = _runJS(Trim(block), TRUE, hostOk)]
       ELSE [FenceNone(atts) EXCEPT !.handler = "inlineJS"]
  ELSE IF StartsWith(line, <<"{py">>)
  THEN [FenceNone(atts) EXCEPT !.handler = "inlinePy", !.ran = pyo,
                               !.emitted = IF pyo THEN _runPy(block, pyo, hostOk)
                                           ELSE <<Ev("pySkipped", <<>>)>>]
  ELSE FenceHSX("v064", block, sbx, atts, mods, pyo, hostOk)

FenceDispatchGated(rv, line, block, sbx, atts, mods, pyo, hostOk) ==
  IF ~sbx THEN FenceNone(atts)
  ELSE IF rv = "v067" THEN Fence067(line, block, sbx, atts, mods, pyo, hostOk)
  ELSE Fence064(line, block, sbx, atts, mods, pyo, hostOk)

\* the sub-language dispatch of a captured fence body
FenceDispatch(rv, line, block, sbx, atts, mods, pyo, hostOk) ==
  IF rv = "v067" THEN Fence067(line, block, sbx, atts, mods, pyo, hostOk)
  ELSE Fence064(line, block, sbx, atts, mods, pyo, hostOk)

\* this.sandboxed = line.replace("hsx security", "").trim() !== "off"
SecurityFlagInverted(line) == Trim(Replace(line, KwSecurity, <<>>)) = <<"off">>

SecurityFlag(line) == Trim(Replace(line, KwSecurity, <<>>)) # <<"off">>


\* ------------------------------------------------ HSXRuntime: the inputs
\* source lines, by family; each execute call takes its lines from one family
ComponentLines ==
  { <<"hsx define component", SP, "A">>,
    <<"hsx end">>,
    <<"hsx render", SP, "A">>,
    <<"<b>", SP>>,
    <<"hsx attach image", SP, QUOTE, "u", QUOTE>>,
    <<"hsx security", SP, "x", SP, "off">>,
    <<>> }

FenceLines ==
  { <<"{js">>, <<"{py">>, <<"{hsx">>, <<"}">>, <<"x">>,
    <<"hsx security", SP, "off">>,
    <<SP, "hsx security", SP, "on", SP>> }

ModuleLines ==
  { <<"hsx modules:", SP, "create", SP, ">", SP, "m", ".ps">>,
    <<"hsx modules:", SP, "comb", SP, "eq", SP, "n", ".ps", SP, "+", "m", ".ps">>,
    <<"hsx modules:", SP, "comb", SP, "eq", SP, "s", "eq", ".ps", "+", "m", ".ps">>,
    <<"(hsx)", SP, "create new block", SP, "cal it", SP, "B", ":)">>,
    <<"(funny)", SP, "f", ":">>,
    <<"hsx security", SP, "off">> }

\* block openers with terminators that carry leading whitespace
IndentedLines ==
  { <<"hsx define component", SP, "A">>,
    <<SP, "hsx end">>,
    <<"{js">>,
    <<SP, "}">> }

Families == {ComponentLines, FenceLines, ModuleLines, IndentedLines}

\* lines of a body handed to _runHSXBlock
BlockLines ==
  { <<"m", ".ps">>,
    <<"n", ".ps", "+", "m", ".ps">>,
    <<"k", SP, "eq", SP, "a", ",", "b">>,
    <<"a", ",", "b">>,
    <<"hsx:", "fun", SP, "{js", SP, "x", "}", ";", "y">>,
    <<SP, "{js", SP, "x", "}">> }

SeqsUpTo(S, n) == UNION {[1..k -> S] : k \in 1..n}

Min(a, b) == IF a < b THEN a ELSE b

\* the sources of at most n lines a call may be given, as lines
Programs(n) == UNION {SeqsUpTo(F, Min(n, MaxLines)) : F \in Families}

BlockBodies(n) == SeqsUpTo(BlockLines, Min(n, MaxBlockLines))

\* ------------------------------------------------- HSXRuntime: the state
VARIABLES
  rev,          \* which revision of hsx-runtime.js this instance is
  components, blocks, modules, attachments, metaTags,   \* the registries
  pyodide,      \* whether this.pyodide is loaded
  sandboxed,    \* this.sandboxed
  code,         \* the argument of the execute call in progress
  lines, i,     \* execute's lines and cursor
  pc,           \* "idle", "running", or "threw" (execute's promise rejected)
  used, calls,  \* source lines and calls spent so far
  emitted,      \* what the last handler logged or asked of a collaborator
  last,         \* the last handler that ran and what it was given
  defined,      \* names a component definition has stored
  lastSecurity, \* the most recently dispatched security line
  seen          \* how each top-level fence was handled

rtVars == <<rev, components, blocks, modules, attachments, metaTags, pyodide,
            sandboxed, code, lines, i, pc, used, calls, emitted, last, defined,
            lastSecurity, seen>>

Note(op, line, at, name, body, handler, wrote, threw) ==
  [op |-> op, line |-> line, at |-> at, name |-> name, body |-> body,
   gate |-> sandboxed, handler |-> handler, wrote |-> wrote, threw |-> threw]

RtInit ==
  /\ rev \in {"v064", "v067"}
  /\ components = EmptyReg /\ blocks = EmptyReg /\ modules = EmptyReg
  /\ attachments = EmptyReg /\ metaTags = EmptyReg
  /\ pyodide = FALSE
  /\ sandboxed = TRUE
  /\ code = <<>> /\ lines = <<>> /\ i = 0
  /\ pc = "idle"
  /\ used = 0 /\ calls = 0
  /\ emitted = <<>>
  /\ last = Note("new", <<>>, 0, <<>>, <<>>, "none", FALSE, FALSE)
  /\ defined = {}
  /\ lastSecurity = [seen |-> FALSE, line |-> <<>>]
  /\ seen = {}

Cur == Trim(lines[i])

AtLine == pc = "running" /\ i <= Len(lines)

IsAttach(l) ==
  StartsWith(l, KwAttachImage) \/ StartsWith(l, KwAttachVideo) \/ StartsWith(l, KwAttachAudio)

IsFence(l) == StartsWith(l, <<"{js">>) \/ StartsWith(l, <<"{py">>) \/ StartsWith(l, <<"{hsx">>)

\* the if-chain of execute: the first test that matches decides
Directive(rv, l) ==
  IF rv = "v067" /\ l = <<>> THEN "blank"
  ELSE IF IsAttach(l) THEN "attach"
  ELSE IF StartsWith(l, KwDefine) THEN "define"
  ELSE IF StartsWith(l, KwRender) THEN "render"
  ELSE IF IsFence(l) THEN "fence"
  ELSE IF StartsWith(l, KwSecurity) THEN "security"
  ELSE IF rv = "v064" THEN "other"
  ELSE IF StartsWith(l, KwModules) THEN "modules"
  ELSE IF StartsWith(l, <<"hsx:">>) \/ StartsWith(l, <<"(hsx)">>) THEN "newhsx"
  ELSE IF StartsWith(l, KwFunny) THEN "funny"
  ELSE "other"

Registries == <<components, blocks, modules, attachments, metaTags>>

\* ------------------------------------------- HSXEngine (Engine.js): state
VARIABLES
  botsDB,                \* [has, records]: botsDB.records, once created
  customDatabaseBlocks,
  storages,              \* name -> reference of the storage object
  physicStorage,         \* name -> reference
  hidden,                \* the _physic_NAME properties: name -> reference
  customStorages,        \* name -> table
  heap,                  \* reference -> table of the storage object
  customCodeLines,
  stack,                 \* the active run calls, innermost first: [lines, i,
                         \* base: the bot records when the call was made]
  unitBlock, unitName,   \* the CCCL scan in progress: lines pushed, unit name
  filling,               \* the storage whose field lines are being read
  epc,                   \* "idle", "run", "cccl", "fields" or "threw"
  eused, eruns,          \* source lines and run calls spent so far
  elast                  \* the last engine step

enVars == <<botsDB, customDatabaseBlocks, storages, physicStorage, hidden,
            customStorages, heap, customCodeLines, stack, unitBlock, unitName,
            filling, epc, eused, eruns, elast>>

\* ----------------------------------------------- HSXRuntime: the actions
\* await this.execute(code): split into lines, right-trim each
Execute ==
  /\ pc \in {"idle", "threw"}
  /\ calls < MaxCalls
  /\ \E src \in Programs(MaxLines - used) :
       /\ code' = Join(src, NL)
       /\ lines' = MapTrimEnd(Split(Join(src, NL), NL))
       /\ used' = used + Len(src)
  /\ i' = 1
  /\ pc' = "running"
  /\ calls' = calls + 1
  /\ emitted' = <<>>
  /\ last' = Note("execute", <<>>, 0, <<>>, <<>>, "none", FALSE, FALSE)
  /\ UNCHANGED enVars
  /\ UNCHANGED <<rev, Registries, pyodide, sandboxed, defined, lastSecurity, seen>>

\* if (!line) continue
BlankLine ==
  /\ AtLine /\ Directive(rev, Cur) = "blank"
  /\ i' = i + 1
  /\ emitted' = <<>>
  /\ last' = Note("blank", Cur, i, <<>>, <<>>, "none", FALSE, FALSE)
  /\ UNCHANGED enVars
  /\ UNCHANGED <<rev, Registries, pyodide, sandboxed, code, lines, pc, used, calls,
                 defined, lastSecurity, seen>>

\* hsx attach image|video|audio: _attachMedia asks the Renderer, which may throw
AttachMedia ==
  /\ AtLine /\ Directive(rev, Cur) = "attach"
  /\ \E ok \in BOOLEAN :
       IF rev = "v064" /\ ~HasQuoted(Cur)
       THEN /\ ok
            /\ i' = i + 1 /\ pc' = pc /\ emitted' = <<>>
            /\ last' = Note("attach", Cur, i, <<>>, <<>>, "none", FALSE, FALSE)
       ELSE IF ok
       THEN /\ i' = i + 1 /\ pc' = pc
            /\ emitted' = <<Ev(MediaType(Cur), _extractQuotes(Cur))>>
            /\ last' = Note("attach", Cur, i, <<>>, <<>>, "_attachMedia", FALSE, FALSE)
       ELSE /\ i' = i /\ pc' = "threw"
            /\ emitted' = <<Ev("rendererThrew", _extractQuotes(Cur))>>
            /\ last' = Note("attach", Cur, i, <<>>, <<>>, "_attachMedia", FALSE, TRUE)
  /\ UNCHANGED enVars
  /\ UNCHANGED <<rev, Registries, pyodide, sandboxed, code, lines, used, calls,
                 defined, lastSecurity, seen>>

\* hsx define component NAME ... hsx end
DefineBodyJoined(ls, from) ==
  Join(SubSeq(ls, from, ScanEnd(ls, from, EndMarkers(ls)) - 1), NL)

DefineBody(ls, from) == BodyText(ls, from, ScanEnd(ls, from, EndMarkers(ls)) - 1)

DefineComponent ==
  /\ AtLine /\ Directive(rev, Cur) = "define"
  /\ LET name == Trim(Replace(Cur, KwDefine, <<>>))
         body == DefineBody(lines, i + 1)
     IN  /\ components' = Put(components, name, body)
         /\ defined' = defined \cup {name}
         /\ emitted' = <<Ev("componentDefined", name)>>
         /\ last' = Note("define", Cur, i, name, body, "none", TRUE, FALSE)
  /\ i' = ScanEnd(lines, i + 1, EndMarkers(lines)) + 1
  /\ UNCHANGED enVars
  /\ UNCHANGED <<rev, blocks, modules, attachments, metaTags, pyodide, sandboxed,
                 code, lines, pc, used, calls, lastSecurity, seen>>

\* hsx render NAME: _renderComponent
IsFound(reg, name) == Has(reg, name) /\ reg[name] # <<>>

RenderComponent ==
  /\ AtLine /\ Directive(rev, Cur) = "render"
  /\ LET name == Trim(Replace(Cur, KwRender, <<>>))
     IN  \E ok \in BOOLEAN :
           IF ~IsFound(components, name)
           THEN /\ ok
                /\ i' = i + 1 /\ pc' = pc
                /\ emitted' = <<Ev("componentNotFound", name)>>
                /\ last' = Note("render", Cur, i, name, <<>>, "_renderComponent", FALSE, FALSE)
           ELSE IF ok
           THEN /\ i' = i + 1 /\ pc' = pc
                /\ emitted' = <<Ev("render", components[name])>>
                /\ last' = Note("render", Cur, i, name, components[name],
                                "_renderComponent", FALSE, FALSE)
           ELSE /\ i' = i /\ pc' = "threw"
                /\ emitted' = <<Ev("rendererThrew", components[name])>>
                /\ last' = Note("render", Cur, i, name, components[name],
                                "_renderComponent", FALSE, TRUE)
  /\ UNCHANGED enVars
  /\ UNCHANGED <<rev, Registries, pyodide, sandboxed, code, lines, used, calls,
                 defined, lastSecurity, seen>>

\* {js / {py / {hsx ... }: capture the body, hand it to the sub-language
Fence ==
  /\ AtLine /\ Directive(rev, Cur) = "fence"
  /\ LET e     == ScanEnd(lines, i + 1, Closers(lines))
         block == BodyText(lines, i + 1, e - 1)
     IN  \E hostOk \in BOOLEAN :
           LET r == FenceDispatch(rev, Cur, block, sandboxed, attachments, modules,
                                  pyodide, hostOk)
           IN  /\ attachments' = r.attachments
               /\ emitted' = r.emitted
               /\ pc' = IF r.threw THEN "threw" ELSE pc
               /\ i' = IF r.threw THEN i ELSE e + 1
               /\ last' = Note("fence", Cur, i, <<>>, block, r.handler,
                               r.attachments # attachments, r.threw)
               /\ seen' = seen \cup {[tag |-> Head(Cur), body |-> block, pyo |-> pyodide,
                                      gate |-> sandboxed, handler |-> r.handler,
                                      ran |-> r.ran]}
  /\ UNCHANGED enVars
  /\ UNCHANGED <<rev, components, blocks, modules, metaTags, pyodide, sandboxed,
                 code, lines, used, calls, defined, lastSecurity>>

\* hsx security MODE
SecurityMode ==
  /\ AtLine /\ Directive(rev, Cur) = "security"
  /\ sandboxed' = SecurityFlag(Cur)
  /\ lastSecurity' = [seen |-> TRUE, line |-> lines[i]]
  /\ i' = i + 1
  /\ emitted' = <<Ev("securityMode", Cur)>>
  /\ last' = Note("security", Cur, i, <<>>, <<>>, "none", FALSE, FALSE)
  /\ UNCHANGED enVars
  /\ UNCHANGED <<rev, Registries, pyodide, code, lines, pc, used, calls, defined, seen>>

\* hsx modules: Load | create > NAME | comb eq A+B
HandleModules ==
  /\ AtLine /\ Directive(rev, Cur) = "modules"
  /\ LET cmd == Trim(Replace(Cur, KwModules, <<>>))
     IN  /\ modules' = _handleModules(cmd, modules)
         /\ last' = Note("modules", Cur, i, cmd, <<>>, "_handleModules",
                         _handleModules(cmd, modules) # modules, FALSE)
  /\ i' = i + 1
  /\ emitted' = <<>>
  /\ UNCHANGED enVars
  /\ UNCHANGED <<rev, components, blocks, attachments, metaTags, pyodide, sandboxed,
                 code, lines, pc, used, calls, defined, lastSecurity, seen>>

\* hsx: ... / (hsx) ...: _handleNewHSXCommands
HandleNewHSXCommands ==
  /\ AtLine /\ Directive(rev, Cur) = "newhsx"
  /\ IF StartsWith(Cur, KwCreateBlock)
     THEN LET name == Trim(Replace(Replace(Cur, KwCreateBlock \o <<SP, "cal it">>, <<>>),
                                   <<":)">>, <<>>))
          IN  /\ blocks' = Put(blocks, name, [code |-> <<>>])
              /\ metaTags' = metaTags
              /\ emitted' = <<Ev("blockCreated", name)>>
     ELSE IF StartsWith(Cur, KwMetaTag)
     THEN LET parts == Split(Cur, ":")
              tag   == IF Len(parts) >= 2 THEN Trim(parts[2]) ELSE <<>>
          IN  /\ metaTags' = IF tag # <<>> THEN Put(metaTags, tag, <<>>) ELSE metaTags
              /\ blocks' = blocks
              /\ emitted' = IF tag # <<>> THEN <<Ev("metaTag", tag)>> ELSE <<>>
     ELSE /\ blocks' = blocks /\ metaTags' = metaTags
          /\ emitted' = <<Ev("newCommand", Cur)>>
  /\ i' = i + 1
  /\ last' = Note("newhsx", Cur, i, <<>>, <<>>, "_handleNewHSXCommands", FALSE, FALSE)
  /\ UNCHANGED enVars
  /\ UNCHANGED <<rev, components, modules, attachments, pyodide, sandboxed, code, lines,
                 pc, used, calls, defined, lastSecurity, seen>>

\* (funny) NAME: ...: _handleFunnyBlock gets the cursor by value
HandleFunnyBlock ==
  /\ AtLine /\ Directive(rev, Cur) = "funny"
  /\ LET name == Trim(Split(Replace(Cur, KwFunny, <<>>), ":")[1])
         j    == ScanEnd(lines, i + 1, FunnyHeaders(lines))
         text == Join(SubSeq(lines, i + 1, j - 1), NL)
     IN  /\ blocks' = Put(blocks, name, [code |-> text])
         /\ emitted' = <<Ev("funnyBlock", name)>>
         /\ last' = Note("funny", Cur, i, name, text, "_handleFunnyBlock", TRUE, FALSE)
  /\ i' = i + 1
  /\ UNCHANGED enVars
  /\ UNCHANGED <<rev, components, modules, attachments, metaTags, pyodide, sandboxed,
                 code, lines, pc, used, calls, defined, lastSecurity, seen>>

\* a line no test matches
OtherLine ==
  /\ AtLine /\ Directive(rev, Cur) = "other"
  /\ i' = i + 1
  /\ emitted' = IF rev = "v067" THEN <<Ev("metaLine", Cur)>> ELSE <<>>
  /\ last' = Note("other", Cur, i, <<>>, <<>>, "none", FALSE, FALSE)
  /\ UNCHANGED enVars
  /\ UNCHANGED <<rev, Registries, pyodide, sandboxed, code, lines, pc, used, calls,
                 defined, lastSecurity, seen>>

\* the loop ends: "HSX execution complete!"
Complete ==
  /\ pc = "running" /\ i > Len(lines)
  /\ pc' = "idle"
  /\ code' = <<>> /\ lines' = <<>> /\ i' = 0
  /\ emitted' = <<Ev("complete", <<>>)>>
  /\ last' = Note("complete", <<>>, 0, <<>>, <<>>, "none", FALSE, FALSE)
  /\ UNCHANGED enVars
  /\ UNCHANGED <<rev, Registries, pyodide, sandboxed, used, calls, defined,
                 lastSecurity, seen>>

\* a caller hands a body to _runHSXBlock (execute of hsx-runtime.js never does)
CallRunHSXBlock ==
  /\ pc \in {"idle", "threw"}
  /\ calls < MaxCalls
  /\ \E src \in BlockBodies(MaxLines - used), hostOk \in BOOLEAN :
       LET c == BodyText(src, 1, Len(src))
           r == _runHSXBlock(rev, c, sandboxed, attachments, modules, pyodide, hostOk)
       IN  /\ used' = used + Len(src)
           /\ attachments' = r.attachments
           /\ emitted' = r.emitted
           /\ last' = Note("_runHSXBlock", <<>>, 0, <<>>, c, "_runHSXBlock",
                           r.attachments # attachments, r.threw)
  /\ calls' = calls + 1
  /\ UNCHANGED enVars
  /\ UNCHANGED <<rev, components, blocks, modules, metaTags, pyodide, sandboxed, code,
                 lines, i, pc, defined, lastSecurity, seen>>

\* initPyodide, called before any script runs: the import may fail, and then
\* pyodide stays null
InitPyodide ==
  /\ pc = "idle" /\ calls = 0 /\ last.op = "new"
  /\ ~pyodide
  /\ \E ok \in BOOLEAN : pyodide' = ok
  /\ calls' = calls
  /\ emitted' = <<Ev("initPyodide", <<>>)>>
  /\ last' = Note("initPyodide", <<>>, 0, <<>>, <<>>, "none", FALSE, FALSE)
  /\ UNCHANGED enVars
  /\ UNCHANGED <<rev, Registries, sandboxed, code, lines, i, pc, used, defined,
                 lastSecurity, seen>>

\* lines handed directly to _parseAttachmentLegacy
AttachLines ==
  { <<"k", SP, "eq", SP, "a", "-", "b">>,
    <<"k", SP, "eq", SP, "a", ",", "b", ",", SP, "c">>,
    <<"hsx:", "new", SP, "j", SP, "eq", SP, "b", ",", "a">>,
    <<"k", SP, "eq", SP, "a", ",", "s", "eq">>,
    <<"j", SP, "-", SP, "a">>,
    <<"m", SP, "eq", SP, "b", "-", "a">>,
    <<"a", ",", "b">> }

\* _parseAttachmentLegacy calls made on one instance
MaxParses == 3

\* a caller hands one line to _parseAttachmentLegacy
ParseAttachment ==
  /\ pc = "idle" /\ calls < MaxParses
  /\ \E line \in AttachLines :
       LET r == _parseAttachmentLegacy(line, attachments)
       IN  /\ attachments' = r.attachments
           /\ emitted' = <<Ev(IF r.threw THEN "typeError" ELSE "attachmentStored", line)>>
           /\ last' = Note("_parseAttachmentLegacy", line, 0, <<>>, <<>>,
                           "_parseAttachmentLegacy", ~r.threw, r.threw)
  /\ calls' = calls + 1
  /\ UNCHANGED enVars
  /\ UNCHANGED <<rev, components, blocks, modules, metaTags, pyodide, sandboxed, code,
                 lines, i, pc, used, defined, lastSecurity, seen>>

\* --------------------------------------------------- HSXEngine (Engine.js)
Undefined == <<"undefined">>

RecordMarker == <<";", ":">>

\* lines[k]?.trim().startsWith(";:")
IsRecord(l) == StartsWith(Trim(l), RecordMarker)

NotRecord(l) == ~IsRecord(l)

\* lines[k]?.includes("=")
NotField(l) == ~Includes(l, <<"=">>)

NonRecords(ls) == {k \in 1..Len(ls) : NotRecord(ls[k])}

\* v.replace(/"/g, "")
StripQuotes(s) == SelectSeq(s, LAMBDA a : a # QUOTE)

Field(fs, n) == IF n <= Len(fs) THEN fs[n] ELSE Undefined

BotRecordRaw(l) ==
  LET fs == Split(Trim(Replace(l, RecordMarker, <<>>)), ",")
  IN  [name |-> Field(fs, 1), bot |-> Field(fs, 2), meta |-> Field(fs, 3),
       formats |-> EmptyReg]

\* one ";:" line as a bot record
BotRecord(l) ==
  LET fs == MapTrim(Split(Trim(Replace(l, RecordMarker, <<>>)), ","))
  IN  [name |-> Field(fs, 1), bot |-> Field(fs, 2), meta |-> Field(fs, 3),
       formats |-> EmptyReg]

RECURSIVE BotRecords(_, _, _)
BotRecords(ls, a, b) ==
  IF a > b THEN <<>> ELSE <<BotRecord(ls[a])>> \o BotRecords(ls, a + 1, b)

RECURSIVE DbRecords(_, _, _)
DbRecords(ls, a, b) ==
  IF a > b THEN <<>>
  ELSE <<Trim(Replace(ls[a], RecordMarker, <<>>))>> \o DbRecords(ls, a + 1, b)

\* let [k, v] = lines[i].split("=").map(x => x.trim()); tbl[k] = v.replace(/"/g, "")
SetField(tbl, line) ==
  LET kv == MapTrim(Split(line, "="))
  IN  Put(tbl, kv[1], StripQuotes(kv[2]))

\* the truthy properties a plain object inherits from Object.prototype
Inherited == {<<"constructor">>, <<"toString">>}

EngineRecordLines ==
  { <<"bots", ":">>,
    <<";", ":", SP, "Ada", ",", SP, "helper", ",", SP, "v1">>,
    <<":", "Hsx", ":">>,
    <<"db", ":">>,
    <<"constructor">> }

EngineStorageLines ==
  { <<":", "Hsx", ":">>,
    <<"$", "S">>,
    <<SP, "k", SP, "=", SP, QUOTE, "v", QUOTE>>,
    <<"create", SP, "storage", SP, "T">>,
    <<"j", "=", QUOTE, "a", "=", "b", QUOTE>> }

EngineUnitLines ==
  { <<"CCCL", SP, "FOO">>,
    <<"}">>,
    <<"FOO">>,
    <<"bots", ":">>,
    <<";", ":", SP, "Ada", ",", SP, "helper", ",", SP, "v1">> }

EngineFamilies == {EngineRecordLines, EngineStorageLines, EngineUnitLines}

\* source lines handed to one engine, summed over its run calls
MaxEngineLines == 5
\* run calls made on one engine
MaxRuns == 2
\* lines the CCCL scan is followed past the end of its input
MaxOverrun == 2
\* nested run calls the call stack holds
MaxDepth == 3

EnginePrograms(n) == UNION {SeqsUpTo(F, Min(n, MaxEngineLines)) : F \in EngineFamilies}

ENote(op, line, at) == [op |-> op, line |-> line, at |-> at, depth |-> Len(stack)]

NoStorage == [kind |-> "none", name |-> <<>>]

EnInit ==
  /\ botsDB = [has |-> FALSE, records |-> <<>>]
  /\ customDatabaseBlocks = EmptyReg
  /\ storages = EmptyReg /\ physicStorage = EmptyReg /\ hidden = EmptyReg
  /\ customStorages = EmptyReg
  /\ heap = <<>>
  /\ customCodeLines = EmptyReg
  /\ stack = <<>>
  /\ unitBlock = <<>> /\ unitName = <<>>
  /\ filling = NoStorage
  /\ epc = "idle"
  /\ eused = 0 /\ eruns = 0
  /\ elast = [op |-> "new", line |-> <<>>, at |-> 0, depth |-> 0]

ELines == stack[1].lines

EI == stack[1].i

EAtLine == epc = "run" /\ stack # <<>> /\ EI <= Len(ELines)

ECur == Trim(ELines[EI])

Goto(k) == [stack EXCEPT ![1].i = k]

IsUnitGuarded(l) ==
  /\ Has(customCodeLines, l) /\ customCodeLines[l] # <<>>
  /\ \A d \in 1..Len(stack) : stack[d].lines # Split(customCodeLines[l], NL)

\* if (this.customCodeLines[line]): an own property with a non-empty body, or
\* a property the registry object inherits
IsUnit(l) == IF Has(customCodeLines, l) THEN customCodeLines[l] # <<>> ELSE l \in Inherited

\* the if-chain of run: the first test that matches decides
EDirective(l) ==
  IF l = <<"bots", ":">> THEN "bots"
  ELSE IF l = <<":", "Hsx", ":">> THEN "hsx"
  ELSE IF StartsWith(l, <<"CCCL">>) THEN "cccl"
  ELSE IF IsUnit(l) THEN "unit"
  ELSE "other"

EStores == <<storages, physicStorage, hidden, customStorages, heap>>

\* engine.run(code)
Run ==
  /\ epc \in {"idle", "threw"} /\ eruns < MaxRuns
  /\ \E src \in EnginePrograms(MaxEngineLines - eused) :
       /\ stack' = <<[lines |-> Split(Join(src, NL), NL), i |-> 1,
                      base |-> botsDB.records]>>
       /\ eused' = eused + Len(src)
  /\ epc' = "run" /\ eruns' = eruns + 1
  /\ elast' = [op |-> "run", line |-> <<>>, at |-> 0, depth |-> 1]
  /\ UNCHANGED <<botsDB, customDatabaseBlocks, EStores, customCodeLines, unitBlock, unitName>>
  /\ UNCHANGED <<rtVars, filling>>

\* bots: followed by ";:" records
BotsBlock ==
  /\ EAtLine /\ EDirective(ECur) = "bots"
  /\ LET e == ScanEnd(ELines, EI + 1, NonRecords(ELines))
     IN  /\ botsDB' = [has |-> TRUE,
                       records |-> botsDB.records \o BotRecords(ELines, EI + 1, e - 1)]
         /\ stack' = Goto(e)
  /\ elast' = ENote("bots", ECur, EI)
  /\ UNCHANGED <<customDatabaseBlocks, EStores, customCodeLines, unitBlock, unitName, epc,
                 eused, eruns>>
  /\ UNCHANGED <<rtVars, filling>>

embedPhysicPrefixed(reg, name, ref) == Put(reg, <<"_physic_">> \o name, ref)

\* embedPhysic(storageName): both slots take the reference of the storage
embedPhysic(reg, name, ref) == Put(reg, name, ref)

\* :Hsx: followed by $NAME, create storage NAME, or NAME:
HsxBlock ==
  /\ EAtLine /\ EDirective(ECur) = "hsx"
  /\ LET n    == EI + 1
         has  == n <= Len(ELines)
         next == IF has THEN Trim(ELines[n]) ELSE Undefined
         r    == ScanEnd(ELines, n + 1, NonRecords(ELines))
     IN  IF has /\ StartsWith(next, <<"$">>)
         THEN LET name == Trim(Replace(next, <<"$">>, <<>>))
              IN  \* this.storages[storageName] ??= {}
                  /\ storages' = IF Has(storages, name) THEN storages
                                 ELSE Put(storages, name, Len(heap) + 1)
                  /\ heap' = IF Has(storages, name) THEN heap ELSE Append(heap, EmptyReg)
                  /\ filling' = [kind |-> "physic", name |-> name]
                  /\ epc' = "fields"
                  /\ stack' = Goto(n + 1)
                  /\ UNCHANGED <<physicStorage, hidden, customStorages,
                                 customDatabaseBlocks>>
         ELSE IF has /\ StartsWith(next, <<"create", SP, "storage">>)
         THEN LET parts == Split(next, SP)
                  name  == Trim(Join(SubSeq(parts, 3, Len(parts)), SP))
              IN  \* this.createCustomStorage(storageName)
                  /\ customStorages' = IF Has(customStorages, name) THEN customStorages
                                       ELSE Put(customStorages, name, EmptyReg)
                  /\ filling' = [kind |-> "custom", name |-> name]
                  /\ epc' = "fields"
                  /\ stack' = Goto(n + 1)
                  /\ UNCHANGED <<storages, physicStorage, hidden, heap,
                                 customDatabaseBlocks>>
         ELSE IF has /\ EndsWith(next, <<":">>) /\ ~StartsWith(next, <<"$">>)
         THEN LET dbName == Replace(next, <<":">>, <<>>)
                  old    == IF Has(customDatabaseBlocks, dbName)
                            THEN customDatabaseBlocks[dbName] ELSE <<>>
              IN  /\ customDatabaseBlocks' =
                       Put(customDatabaseBlocks, dbName,
                           old \o DbRecords(ELines, n + 1, r - 1))
                  /\ stack' = Goto(r)
                  /\ UNCHANGED <<EStores, filling, epc>>
         ELSE /\ stack' = Goto(n)
              /\ UNCHANGED <<EStores, customDatabaseBlocks, filling, epc>>
  /\ elast' = ENote("hsx", ECur, EI)
  /\ UNCHANGED <<botsDB, customCodeLines, unitBlock, unitName, eused, eruns>>
  /\ UNCHANGED rtVars

\* while (lines[i]?.includes("="))
IsFieldAt(k) == IF k > Len(ELines) THEN FALSE ELSE ~NotField(ELines[k])

\* one key = value line of a storage block
StorageField ==
  /\ epc = "fields" /\ IsFieldAt(EI)
  /\ IF filling.kind = "physic"
     THEN /\ heap' = [heap EXCEPT ![storages[filling.name]] = SetField(@, ELines[EI])]
          /\ UNCHANGED customStorages
     ELSE /\ customStorages' = [customStorages EXCEPT ![filling.name] =
                                  SetField(@, ELines[EI])]
          /\ UNCHANGED heap
  /\ stack' = Goto(EI + 1)
  /\ elast' = ENote("field", ELines[EI], EI)
  /\ UNCHANGED <<botsDB, customDatabaseBlocks, storages, physicStorage, hidden,
                 customCodeLines, unitBlock, unitName, filling, epc, eused, eruns>>
  /\ UNCHANGED rtVars

FieldsEndConsuming ==
  /\ epc = "fields" /\ ~IsFieldAt(EI)
  /\ IF filling.kind = "physic"
     THEN /\ physicStorage' = embedPhysic(physicStorage, filling.name,
                                          storages[filling.name])
          /\ hidden' = embedPhysic(hidden, filling.name, storages[filling.name])
          /\ elast' = [op |-> "embed", line |-> filling.name, at |-> EI,
                       depth |-> Len(stack),
                       again |-> Has(physicStorage, filling.name)]
     ELSE /\ UNCHANGED <<physicStorage, hidden>>
          /\ elast' = ENote("endfields", filling.name, EI)
  /\ filling' = NoStorage
  /\ epc' = "run"
  /\ stack' = Goto(EI + 1)
  /\ UNCHANGED <<botsDB, customDatabaseBlocks, storages, customStorages, heap,
                 customCodeLines, unitBlock, unitName, eused, eruns>>
  /\ UNCHANGED rtVars

\* the field lines end: a physic storage is embedded, this.embedPhysic(storageName)
FieldsEnd ==
  /\ epc = "fields" /\ ~IsFieldAt(EI)
  /\ IF filling.kind = "physic"
     THEN /\ physicStorage' = embedPhysic(physicStorage, filling.name,
                                          storages[filling.name])
          /\ hidden' = embedPhysic(hidden, filling.name, storages[filling.name])
          /\ elast' = [op |-> "embed", line |-> filling.name, at |-> EI,
                       depth |-> Len(stack),
                       again |-> Has(physicStorage, filling.name)]
     ELSE /\ UNCHANGED <<physicStorage, hidden>>
          /\ elast' = ENote("endfields", filling.name, EI)
  /\ filling' = NoStorage
  /\ epc' = "run"
  /\ UNCHANGED <<botsDB, customDatabaseBlocks, storages, customStorages, heap,
                 customCodeLines, stack, unitBlock, unitName, eused, eruns>>
  /\ UNCHANGED rtVars

\* CCCL NAME: start collecting the unit's lines
CCCLOpen ==
  /\ EAtLine /\ EDirective(ECur) = "cccl"
  /\ unitName' = Field(Split(ECur, SP), 2)
  /\ unitBlock' = <<>>
  /\ stack' = Goto(EI + 1)
  /\ epc' = "cccl"
  /\ elast' = ENote("cccl", ECur, EI)
  /\ UNCHANGED <<botsDB, customDatabaseBlocks, EStores, customCodeLines, eused, eruns>>
  /\ UNCHANGED <<rtVars, filling>>

\* lines[k], undefined past the end of the input
ELineAt(k) == IF k <= Len(ELines) THEN ELines[k] ELSE Undefined

\* lines[i]?.trim() !== "}": past the end this is undefined !== "}"
ScanContinues(k) == IF k > Len(ELines) THEN TRUE ELSE Trim(ELines[k]) # <<"}">>

\* while (lines[i]?.trim() !== "}") { block.push(lines[i]); i++; }
CCCLPush ==
  /\ epc = "cccl" /\ ScanContinues(EI)
  /\ EI <= Len(ELines) + MaxOverrun
  /\ unitBlock' = Append(unitBlock, ELineAt(EI))
  /\ stack' = Goto(EI + 1)
  /\ elast' = ENote("push", ELineAt(EI), EI)
  /\ UNCHANGED <<botsDB, customDatabaseBlocks, EStores, customCodeLines, unitName, epc,
                 eused, eruns>>
  /\ UNCHANGED <<rtVars, filling>>

\* the "}" line: store the unit
CCCLClose ==
  /\ epc = "cccl" /\ ~ScanContinues(EI)
  /\ customCodeLines' = Put(customCodeLines, unitName, Join(unitBlock, NL))
  /\ stack' = Goto(EI + 1)
  /\ epc' = "run"
  /\ unitBlock' = <<>> /\ unitName' = <<>>
  /\ elast' = ENote("close", ELines[EI], EI)
  /\ UNCHANGED <<botsDB, customDatabaseBlocks, EStores, eused, eruns>>
  /\ UNCHANGED <<rtVars, filling>>

\* the lines of a stored unit, as run splits them
UnitBody(name) == Split(customCodeLines[name], NL)

\* a bare line naming a stored unit: this.run(this.customCodeLines[line]).
\* An inherited property is not a string, and code.split throws a TypeError;
\* with the call stack full the call throws a RangeError.  Either leaves
\* every active run.
ExecCustom ==
  /\ EAtLine /\ EDirective(ECur) = "unit"
  /\ IF Has(customCodeLines, ECur) /\ Len(stack) < MaxDepth
     THEN /\ stack' = <<[lines |-> UnitBody(ECur), i |-> 1,
                         base |-> botsDB.records]>> \o stack
          /\ epc' = epc
     ELSE /\ stack' = <<>>
          /\ epc' = "threw"
  /\ elast' = ENote("unit", ECur, EI)
  /\ UNCHANGED <<botsDB, customDatabaseBlocks, EStores, customCodeLines, unitBlock, unitName,
                 eused, eruns>>
  /\ UNCHANGED <<rtVars, filling>>

\* any other line
SkipLine ==
  /\ EAtLine /\ EDirective(ECur) = "other"
  /\ stack' = Goto(EI + 1)
  /\ elast' = ENote("other", ECur, EI)
  /\ UNCHANGED <<botsDB, customDatabaseBlocks, EStores, customCodeLines, unitBlock, unitName,
                 epc, eused, eruns>>
  /\ UNCHANGED <<rtVars, filling>>

ResumeSame(st) == Tail(st)

\* a nested call has returned: i++ in the caller
Resume(st) == [Tail(st) EXCEPT ![1].i = @ + 1]

\* the while loop of a run call ends; a nested call returns to its caller,
\* which steps past the invoking line
Return ==
  /\ epc = "run" /\ stack # <<>> /\ EI > Len(ELines)
  /\ IF Len(stack) = 1
     THEN /\ stack' = <<>> /\ epc' = "idle"
          /\ elast' = [op |-> "return", line |-> <<>>, at |-> 0, depth |-> 1,
                       body |-> ELines, base |-> stack[1].base]
     ELSE /\ stack' = Resume(stack) /\ epc' = epc
          /\ elast' = [op |-> "return", line |-> Trim(stack[2].lines[stack[2].i]),
                       at |-> stack[2].i, depth |-> Len(stack),
                       body |-> ELines, base |-> stack[1].base]
  /\ UNCHANGED <<botsDB, customDatabaseBlocks, EStores, customCodeLines, unitBlock, unitName,
                 eused, eruns>>
  /\ UNCHANGED <<rtVars, filling>>

EnNext ==
  \/ Run \/ BotsBlock \/ HsxBlock \/ StorageField \/ FieldsEnd
  \/ CCCLOpen \/ CCCLPush \/ CCCLClose \/ ExecCustom \/ SkipLine \/ Return

\* ------------------------------------------------------ the specifications
RtNext ==
  \/ Execute \/ BlankLine \/ AttachMedia \/ DefineComponent \/ RenderComponent
  \/ Fence \/ SecurityMode \/ HandleModules \/ HandleNewHSXCommands
  \/ HandleFunnyBlock \/ OtherLine \/ Complete \/ CallRunHSXBlock \/ InitPyodide

vars == <<rtVars, enVars>>

Init == RtInit /\ EnInit

Next == RtNext

\* the HSXRuntime of either revision
Spec == Init /\ [][Next]_vars

EngineInit == Init /\ rev = "v067"

\* the HSXEngine
SpecEngine == EngineInit /\ [][EnNext]_vars

AttachInit == Init /\ rev = "v067"

\* _parseAttachmentLegacy of hsx-runtime.js, called line by line
SpecAttach == AttachInit /\ [][ParseAttachment]_vars

\* ---------------------------------------------------------------- claims
Attempts == {"moduleCall", "moduleNotFound", "moduleError"}

HostCalls == {"deferJS", "runJS", "runPy"}

HasEvent(es, kinds) == \E k \in 1..Len(es) : es[k].ev \in kinds

Skipped == <<Ev("hsxSkipped", <<>>)>>

HandledByHSXBlock == last.handler = "_runHSXBlock"

\* a body line on which _parseAttachmentLegacy throws
Throws(l) == l # <<>> /\ ~IsModuleName(l) /\ Includes(l, <<",">>) /\ ~Includes(l, <<"eq">>)

\* what processing the lines of a body leaves behind, line by line
BodyProcessed(body) ==
  LET ls == MapTrim(Split(body, NL))
  IN  \A k \in 1..Len(ls) :
        (\A j \in 1..(k - 1) : ~Throws(ls[j])) =>
          /\ IsModuleName(ls[k]) =>
               \E e \in 1..Len(emitted) :
                 emitted[e].ev \in Attempts /\ emitted[e].arg = ls[k]
                 /\ emitted[e].of = <<>>
          /\ (~IsModuleName(ls[k]) /\ Includes(ls[k], <<"eq">>)) =>
               Has(attachments, Trim(Split(ls[k], "eq")[1]))
          /\ Throws(ls[k]) => last.threw
          /\ (~IsModuleName(ls[k]) /\ StartsWith(ls[k], <<"{js">>)
              /\ ~Includes(ls[k], <<"eq">>) /\ ~Includes(ls[k], <<"-">>)
              /\ ~Includes(ls[k], <<",">>)) =>
               \E e \in 1..Len(emitted) : emitted[e].ev = "runJS"

\* C1 as stated: given a body with the sandbox flag on, _runHSXBlock makes no
\* ScriptHost call, no module invocation and no registry write and only emits
\* a diagnostic; with the flag off the body is executed.
C1_RefusedWhenSandboxed ==
  HandledByHSXBlock =>
    IF last.gate
    THEN ~HasEvent(emitted, HostCalls \cup Attempts) /\ ~last.wrote
    ELSE emitted # Skipped

\* C1 amended: the gate has the opposite sense.  With the flag off
\* _runHSXBlock only emits the "skipped" diagnostic and changes nothing; with
\* the flag on hsx-runtime.js processes the lines of the body (module lines are
\* invoked, attachment lines stored, inline js run) and the v0.64 revision
\* only logs the body.
C1_SkippedWhenUnsandboxed ==
  HandledByHSXBlock =>
    /\ ~last.gate => (emitted = Skipped /\ ~last.wrote /\ ~last.threw)
    /\ (last.gate /\ rev = "v064") =>
         (emitted = <<Ev("hsxRunLog", last.body)>> /\ ~last.wrote)
    /\ (last.gate /\ rev = "v067") => BodyProcessed(last.body)

C1_Witness ==
  /\ last.op = "_runHSXBlock" /\ last.gate /\ rev = "v067"
  /\ HasEvent(emitted, {"moduleCall"})

\* C2: execute completes normally, whatever the Renderer and the ScriptHost
\* do: its promise is never rejected.
C2_ExecuteNeverRaises == pc # "threw"

\* C3: a block scan never reads past the end of its input: the cursor stops
\* at the first position after the last line and no line past the end is
\* taken into a block.
C3_ScanStopsAtEndOfInput ==
  /\ \A k \in 1..Len(unitBlock) : unitBlock[k] # Undefined
  /\ stack # <<>> => EI <= Len(ELines) + 1

\* C4: the body of every top-level fence goes to the handler of its tag: a
\* {hsx fence to _runHSXBlock, a {js fence to the js runner, a {py fence to
\* the py runner.
C4_FenceReachesItsHandler ==
  (last.op = "fence") =>
    /\ StartsWith(last.line, <<"{hsx">>) => last.handler = "_runHSXBlock"
    /\ StartsWith(last.line, <<"{js">>) => last.handler \in {"_runJS", "inlineJS"}
    /\ StartsWith(last.line, <<"{py">>) => last.handler \in {"_runPy", "inlinePy"}

SameFence(a, b) == a.tag = b.tag /\ a.body = b.body /\ a.pyo = b.pyo

SameHandling(a, b) == a.handler = b.handler /\ a.ran = b.ran

\* C5 as stated: two top-level fences with the same tag and body are handled
\* alike (same handler, run or not run alike) whatever the sandbox flag was
\* when each was reached.
C5_NoTopLevelFenceGated ==
  \A a \in seen, b \in seen : SameFence(a, b) => SameHandling(a, b)

\* C5 amended: top-level {js and {py fences are never gated by the sandbox
\* flag.  A top-level {hsx fence is dropped by hsx-runtime.js whatever the
\* flag, and in the v0.64 revision it goes to _runHSXBlock, which consults
\* the flag.
C5_OnlyHsxFenceGated ==
  \A a \in seen, b \in seen :
    (SameFence(a, b) /\ (a.tag \in {"{js", "{py"} \/ rev = "v067")) => SameHandling(a, b)

C5_Witness ==
  \E a \in seen, b \in seen :
    SameFence(a, b) /\ a.tag = "{js" /\ a.gate /\ ~b.gate /\ a.ran /\ b.ran

\* what trails the keyword of a security line is the single token "off"
TrailingTokenIsOff(l) ==
  LET t == Trim(l)
  IN  /\ StartsWith(t, KwSecurity)
      /\ SelectSeq(SubSeq(t, Len(KwSecurity) + 1, Len(t)), LAMBDA a : ~IsWS(a)) = <<"off">>

\* C6: the sandbox flag is true on a new instance, and at any time it is
\* false exactly when the most recently dispatched security line had the
\* trailing token off; nothing else changes it.
C6_FlagFollowsLastSecurityLine ==
  sandboxed = ~(lastSecurity.seen /\ TrailingTokenIsOff(lastSecurity.line))

C6_Witness ==
  ~sandboxed /\ calls = 2 /\ last.op = "fence" /\ pc = "running"

\* the source lines a component definition captured: those after the
\* defining line and before the line the scan stopped at
CapturedLines == SubSeq(Split(code, NL), last.at + 1, i - 2)

\* C7 as stated: the stored body is the captured lines joined with a newline
\* between them, nothing added or removed.
C7_BodyIsNewlineJoin ==
  last.op = "define" => components[last.name] = Join(CapturedLines, NL)

\* C7 amended: the stored body is every captured line, with its trailing
\* whitespace removed, followed by a newline (so a non-empty body ends with
\* a newline); the scan stops at the first line starting with hsx end or at
\* the end of input, and what render hands to the Renderer is the stored text.
C7_BodyIsLinesEachNewlineEnded ==
  /\ last.op = "define" =>
       LET ls == MapTrimEnd(CapturedLines)
       IN  /\ components[last.name]
                = Join(ls, NL) \o (IF ls = <<>> THEN <<>> ELSE <<NL>>)
           /\ \A k \in 1..Len(ls) : ~StartsWith(ls[k], KwEnd)
           /\ i - 1 <= Len(lines) => StartsWith(lines[i - 1], KwEnd)
  /\ (last.op = "render" /\ HasEvent(emitted, {"render"})) =>
       emitted = <<Ev("render", components[last.name])>>

C7_Witness ==
  /\ last.op = "define" /\ i - 1 <= Len(lines)
  /\ Len(CapturedLines) = 1 /\ CapturedLines[1] # TrimEnd(CapturedLines[1])

\* C8: hsx render NAME asks the Renderer exactly once when NAME was defined
\* by an earlier component definition, whatever its body, and not at all,
\* changing nothing, when NAME was never defined.
C8_RenderOncePerDefinedName ==
  last.op = "render" =>
    IF last.name \in defined
    THEN Cardinality({k \in 1..Len(emitted) :
                        emitted[k].ev \in {"render", "rendererThrew"}}) = 1
    ELSE ~HasEvent(emitted, {"render", "rendererThrew"}) /\ ~last.wrote

\* C9 as stated: inside a combined module, once a constituent is reported
\* missing or failed, no later constituent is attempted.
C9_CombinedStopsOnFirstFailure ==
  \A k \in 1..(Len(emitted) - 1) :
    (emitted[k].ev \in {"moduleNotFound", "moduleError"} /\ emitted[k].of # <<>>) =>
      ~(emitted[k + 1].ev \in Attempts /\ emitted[k + 1].of = emitted[k].of)

\* the constituents attempted by the invocation of the combined module that
\* starts at event k, in order
AttemptedBy(k) ==
  LET name == emitted[k].arg
      ends == {j \in (k + 1)..Len(emitted) :
                 emitted[j].ev = "combinedExecuted" /\ emitted[j].arg = name}
      stop == CHOOSE j \in ends : \A h \in ends : j <= h
      seg  == SelectSeq(SubSeq(emitted, k + 1, stop - 1),
                        LAMBDA e : e.ev \in Attempts /\ e.of = name)
  IN  [n \in 1..Len(seg) |-> seg[n].arg]

\* C9 amended: a constituent that is undeclared (or fails) is reported and
\* the invocation goes on: every constituent of the combined module is
\* attempted, in the declared order.
C9_CombinedAttemptsEveryConstituent ==
  \A k \in 1..Len(emitted) :
    (emitted[k].ev = "moduleCall" /\ emitted[k].of = <<>>
     /\ Has(modules, emitted[k].arg) /\ modules[emitted[k].arg].kind = "comb") =>
      AttemptedBy(k) = modules[emitted[k].arg].mods

C9_Witness ==
  \E k \in 1..(Len(emitted) - 1) :
    /\ emitted[k].ev = "moduleNotFound" /\ emitted[k].of # <<>>
    /\ emitted[k + 1].ev = "moduleCall" /\ emitted[k + 1].of = emitted[k].of

\* the constituent names as written after "comb eq"
WrittenConstituents(cmd) ==
  MapTrim(Split(SubSeq(cmd, Len(<<"comb", SP, "eq">>) + 1, Len(cmd)), "+"))

\* C10: after comb eq A+B+... the registry holds a module named by the
\* +-joined constituent names whose constituents are A, B, ... in that order,
\* and an invocation attempts them in that order, one after the other.
C10_CombinedNamedAndOrdered ==
  /\ (last.op = "modules" /\ StartsWith(last.name, <<"comb", SP, "eq">>)) =>
       LET ws == WrittenConstituents(last.name)
       IN  /\ Has(modules, Join(ws, "+"))
           /\ modules[Join(ws, "+")] = CombModule(ws)
  /\ \A k \in 1..Len(emitted) :
       (emitted[k].ev = "moduleCall" /\ emitted[k].of = <<>>
        /\ Has(modules, emitted[k].arg) /\ modules[emitted[k].arg].kind = "comb") =>
         AttemptedBy(k) = modules[emitted[k].arg].mods

Parsed == last.op = "_parseAttachmentLegacy"

\* an atom that is a plain name: no separator, blank or keyword
IsName(a) == a \notin {"eq", "-", ",", SP, NL, "hsx:", "new"}

\* the line is K eq X-Y with K, X and Y plain names
IsDashForm(l) ==
  /\ Len(l) = 7
  /\ IsName(l[1]) /\ l[2] = SP /\ l[3] = "eq" /\ l[4] = SP
  /\ IsName(l[5]) /\ l[6] = "-" /\ IsName(l[7])

\* C11 as stated: parsing K eq X-Y (no comma) stores key K with the single
\* value [Y].
C11_DashKeepsLastPiece ==
  (Parsed /\ IsDashForm(last.line)) =>
    /\ Has(attachments, <<last.line[1]>>)
    /\ attachments[<<last.line[1]>>] = << <<last.line[7]>> >>

\* C11 amended: parsing K eq X-Y, with K, X and Y free of eq, - and comma,
\* stores key K with the two values [X, Y]: the dash separates values.
C11_DashSeparatesValues ==
  (Parsed /\ IsDashForm(last.line)) =>
    /\ ~last.threw
    /\ Has(attachments, <<last.line[1]>>)
    /\ attachments[<<last.line[1]>>] = << <<last.line[5]>>, <<last.line[7]>> >>

C11_Witness ==
  /\ Parsed /\ IsDashForm(last.line) /\ last.wrote
  /\ Len(attachments[<<last.line[1]>>]) = 2

\* the text of a line before and after its first eq
BeforeEq(l) == SubSeq(l, 1, IndexOf(l, <<"eq">>) - 1)

AfterEq(l) == SubSeq(l, IndexOf(l, <<"eq">>) + 1, Len(l))

\* C12: parsing K eq v1,v2,...,vn stores key K (legacy prefix hsx:new
\* stripped, trimmed) with exactly the values v1..vn, trimmed, in source
\* order.
C12_CommaValuesInOrder ==
  (Parsed /\ Includes(last.line, <<"eq">>) /\ Includes(last.line, <<",">>)) =>
    LET key == Trim(Replace(BeforeEq(last.line), KwNew, <<>>))
    IN  /\ Has(attachments, key)
        /\ attachments[key] = MapTrim(Split(AfterEq(last.line), ","))

\* the table of the storage whose field lines are being read
FillingTable ==
  IF filling.kind = "physic" THEN heap[storages[filling.name]]
  ELSE customStorages[filling.name]

\* text with its quotes and surrounding whitespace removed
Clean(t) == Trim(SelectSeq(t, LAMBDA a : a # QUOTE))

\* the text of a line before and after its first "="
BeforeAssign(l) == SubSeq(l, 1, IndexOf(l, <<"=">>) - 1)

AfterAssign(l) == SubSeq(l, IndexOf(l, <<"=">>) + 1, Len(l))

\* C13: after a storage line key = "value" the table maps the key, quotes
\* and surrounding whitespace removed, to the complete value, quotes and
\* leading/trailing whitespace removed.
C13_FieldStoredWhole ==
  elast.op = "field" =>
    /\ Has(FillingTable, Clean(BeforeAssign(elast.line)))
    /\ FillingTable[Clean(BeforeAssign(elast.line))] = Clean(AfterAssign(elast.line))

\* the physic copy of a storage: what its physicStorage slot shows
PhysicCopy(n) == heap[physicStorage[n]]

\* C14: once a physic storage has been embedded, a later field line written
\* to the visible storage does not change its physic copy.
C14_PhysicCopyIsSnapshot ==
  [][elast'.op = "field" =>
       \A n \in DOMAIN physicStorage : PhysicCopy(n)' = PhysicCopy(n)]_vars

\* the fields of a ";:" line: the text after the marker, split at commas
FieldsOf(l) ==
  LET t == Trim(l) IN MapTrim(Split(Trim(SubSeq(t, 3, Len(t))), ","))

ExpectedBot(l) ==
  LET fs == FieldsOf(l)
  IN  [name |-> IF Len(fs) >= 1 THEN fs[1] ELSE Undefined,
       bot |-> IF Len(fs) >= 2 THEN fs[2] ELSE Undefined,
       meta |-> IF Len(fs) >= 3 THEN fs[3] ELSE Undefined,
       formats |-> EmptyReg]

StartsRecord(l) == LET t == Trim(l) IN Len(t) >= 2 /\ t[1] = ";" /\ t[2] = ":"

\* how many ";:" lines follow line h of ls without a gap
Following(ls, h) ==
  LET stops == {k \in (h + 1)..(Len(ls) + 1) : k = Len(ls) + 1 \/ ~StartsRecord(ls[k])}
  IN  (CHOOSE k \in stops : \A x \in stops : k <= x) - h - 1

\* C16: a dispatched bots: header appends one record {name, bot, meta,
\* formats: {}} per ";:" line that follows it without a gap, built from the
\* trimmed comma-separated fields, in source order; no other step changes the
\* record list, so it only ever grows at its end.
C16_BotRecordsAppended ==
  [][IF elast'.op = "bots"
     THEN /\ botsDB'.has
          /\ botsDB'.records =
               botsDB.records \o [k \in 1..Following(ELines, EI) |->
                                    ExpectedBot(ELines[EI + k])]
     ELSE botsDB' = botsDB]_vars

C16_Witness ==
  /\ elast.op = "bots" /\ Len(botsDB.records) >= 2
  /\ botsDB.records[1].name = <<"Ada">> /\ botsDB.records[1].meta = <<"v1">>

\* C20: embedding never fails and leaves, for the embedded name, exactly one
\* physic entry and one hidden slot, both the storage of that name as it then
\* is; embedding the name again changes neither the set of entries nor what
\* the entry refers to.
C20_EmbedIsIdempotent ==
  /\ DOMAIN physicStorage = DOMAIN hidden
  /\ DOMAIN physicStorage \subseteq DOMAIN storages
  /\ \A n \in DOMAIN physicStorage :
       physicStorage[n] = storages[n] /\ hidden[n] = storages[n]
  /\ elast.op = "embed" =>
       /\ epc = "run"
       /\ Has(physicStorage, elast.line)
       /\ PhysicCopy(elast.line) = heap[storages[elast.line]]

C20_Witness ==
  /\ elast.op = "embed" /\ elast.again
  /\ DOMAIN physicStorage = {elast.line}
  /\ DOMAIN PhysicCopy(elast.line) # {}

\* a body made only of bots: headers and ";:" lines
FlatBody(ls) == \A k \in 1..Len(ls) : Trim(ls[k]) = <<"bots", ":">> \/ StartsRecord(ls[k])

\* line k of ls is a ";:" line of a block opened by a bots: header
InBotsBlock(ls, k) ==
  /\ StartsRecord(ls[k])
  /\ \E h \in 1..(k - 1) :
       Trim(ls[h]) = <<"bots", ":">> /\ \A x \in (h + 1)..k : StartsRecord(ls[x])

\* the records a flat body appends, in order
RECURSIVE RecordsOf(_, _)
RecordsOf(ls, k) ==
  IF k > Len(ls) THEN <<>>
  ELSE (IF InBotsBlock(ls, k) THEN <<ExpectedBot(ls[k])>> ELSE <<>>)
       \o RecordsOf(ls, k + 1)

\* C15: a bare line naming a stored unit (a name that is not itself a
\* directive, a body that is not empty) runs the stored body on the same
\* engine: the nested run starts on the stored lines, what the body wrote is
\* there when it returns (for a body of bot blocks: its records, appended to
\* those present at the invocation), and the caller resumes at the line after
\* the invoking one.
C15_ReplaySharesState ==
  /\ (elast.op = "unit" /\ epc # "threw") =>
       /\ Len(stack) = elast.depth + 1
       /\ ELines = Split(customCodeLines[elast.line], NL) /\ EI = 1
  /\ elast.op = "other" =>
       ~(Has(customCodeLines, elast.line) /\ customCodeLines[elast.line] # <<>>)
  /\ (elast.op = "return" /\ elast.depth >= 2) =>
       /\ Len(stack) = elast.depth - 1
       /\ EI = elast.at + 1
       /\ Split(customCodeLines[elast.line], NL) = elast.body
       /\ FlatBody(elast.body) =>
            botsDB.records = elast.base \o RecordsOf(elast.body, 1)

C15_Witness ==
  /\ elast.op = "return" /\ elast.depth >= 2
  /\ FlatBody(elast.body) /\ RecordsOf(elast.body, 1) # <<>>
  /\ botsDB.records = elast.base \o RecordsOf(elast.body, 1)
  /\ EI = elast.at + 1

\* the stored body of the unit has the unit's own name as a bare line
SelfReferential(name, body) == \E k \in 1..Len(body) : Trim(body[k]) = name

\* C18: a unit whose stored body has its own name as a bare line never
\* returns normally once invoked, and nothing in run limits the recursion:
\* invoking a stored unit fails only when the host's call stack (MaxDepth
\* frames) is full.
C18_SelfReferenceNeverReturns ==
  /\ (elast.op = "return" /\ elast.depth >= 2) =>
       ~SelfReferential(elast.line, elast.body)
  /\ (elast.op = "unit" /\ epc = "threw" /\ Has(customCodeLines, elast.line)) =>
       elast.depth = MaxDepth

C18_Witness ==
  /\ elast.op = "unit" /\ epc = "threw" /\ Has(customCodeLines, elast.line)
  /\ SelfReferential(elast.line, Split(customCodeLines[elast.line], NL))
  /\ elast.depth = MaxDepth

\* C19: a line that matches no directive (in the engine: and is no
\* registered unit name) changes no registry and not the sandbox flag, makes
\* no collaborator call, and the scan goes on with the next line.
C19_UnmatchedLineIsNoOp ==
  [][/\ (elast'.op \in {"other", "unit"} /\ ~Has(customCodeLines, elast'.line)) =>
          /\ UNCHANGED <<botsDB, customDatabaseBlocks, EStores, customCodeLines>>
          /\ epc' = epc
          /\ stack' = Goto(EI + 1)
     /\ (last'.op = "other") =>
          /\ UNCHANGED <<Registries, sandboxed, pyodide, pc>>
          /\ i' = i + 1
          /\ ~HasEvent(emitted', HostCalls \cup Attempts \cup {"render", "img", "video", "audio"})
    ]_vars

\* the fence step just taken handed a non-empty body to the JavaScript path
JsFenceStep ==
  /\ last.op = "fence" /\ last.handler \in {"_runJS", "inlineJS"}
  /\ Trim(last.body) # <<>>

\* the fence step just taken handed its body to a loaded Python interpreter
PyFenceStep ==
  /\ last.op = "fence" /\ last.handler \in {"_runPy", "inlinePy"} /\ pyodide

\* the text the revision hands over: v0.64 trims the JavaScript body
JsHanded == IF rev = "v064" THEN Trim(last.body) ELSE last.body

\* C17 (as stated): the body of a top-level {js or {py fence has been run by
\* the host when the fence step ends, before any following directive acts.
C17_FenceBodyRunsInPlace ==
  /\ JsFenceStep => \E k \in 1..Len(emitted) : emitted[k] = Ev("runJS", JsHanded)
  /\ PyFenceStep => \E k \in 1..Len(emitted) : emitted[k] = Ev("runPy", last.body)

\* C17 (amended): when the fence step ends, a {py body (interpreter loaded)
\* has been run to completion, while a {js body has only been registered as
\* a DOMContentLoaded listener and has not been run.
C17_PyRunsInPlaceJsIsDeferred ==
  /\ JsFenceStep =>
       /\ Len(emitted) = 2 /\ emitted[1] = Ev("deferJS", JsHanded)
       /\ emitted[2].ev \in {"jsExecuted", "jsError"}
       /\ ~HasEvent(emitted, {"runJS"})
  /\ PyFenceStep =>
       /\ Len(emitted) = 2 /\ emitted[1] = Ev("runPy", last.body)
       /\ emitted[2].ev \in {"pyExecuted", "pyError"}

C17_Witness ==
  /\ JsFenceStep /\ last.handler = "_runJS"
  /\ emitted[1] = Ev("deferJS", last.body)
  /\ pc = "running" /\ i > last.at

\* where the capture of the funny block opened at line h stops
FunnyStop(h) == ScanEnd(lines, h + 1, FunnyHeaders(lines))

\* C21: once a (funny) directive has stored its body lines in the blocks
\* registry, the scan of execute resumes after the captured body (at the
\* next (funny) header or at the end of the input), so no stored line is
\* dispatched as a top-level directive.
C21_ScanResumesAfterFunnyBody ==
  (last.op = "funny" /\ pc = "running") =>
    /\ blocks[last.name].code = Join(SubSeq(lines, last.at + 1, FunnyStop(last.at) - 1), NL)
    /\ i = FunnyStop(last.at)

\* the lines whose trimmed text starts with "hsx end"
TrimmedEndMarkers == {k \in 1..Len(lines) : IsEndMarker(Trim(lines[k]))}

\* the lines whose trimmed text is a standalone "}"
TrimmedClosers == {k \in 1..Len(lines) : IsCloser(Trim(lines[k]))}

\* C22: block terminators are matched on trimmed lines: the scan of a
\* component definition stops at the first line whose trimmed text starts
\* with "hsx end", the scan of a fence at the first line whose trimmed text
\* is a standalone "}", leading whitespace or not, and the scan of execute
\* resumes on the line after it.
C22_TerminatorsMatchedTrimmed ==
  /\ (last.op = "define" /\ pc = "running") =>
       i = ScanEnd(lines, last.at + 1, TrimmedEndMarkers) + 1
  /\ (last.op = "fence" /\ pc = "running") =>
       i = ScanEnd(lines, last.at + 1, TrimmedClosers) + 1

\* the step just taken ended a record table or a storage block, or found no
\* block under a :Hsx: header, and the scan is in the outer loop again
BlockJustEnded ==
  /\ stack # <<>> /\ epc = "run"
  /\ elast.op \in {"bots", "hsx", "embed", "endfields"}

DispatchOps == {"bots", "hsx", "cccl", "unit", "other"}

\* C23: the line that ends a record table (the first line not starting with
\* ";:") or a storage block (the first line without "=") is left to the
\* outer loop: the cursor stops on it, and the next step dispatches that
\* same line as a directive, so a bots: header there opens a record table.
C23_TerminatorIsDispatched ==
  [][/\ (elast'.op = "bots" /\ stack' # <<>>) =>
          /\ \A k \in (elast'.at + 1)..(EI' - 1) : StartsRecord(ELines'[k])
          /\ EI' <= Len(ELines') => ~StartsRecord(ELines'[EI'])
     /\ (elast'.op \in {"embed", "endfields"}) =>
          /\ EI' = elast'.at
          /\ EI' <= Len(ELines') => "=" \notin {ELines'[EI'][x] : x \in 1..Len(ELines'[EI'])}
     /\ (BlockJustEnded /\ EI <= Len(ELines)) =>
          /\ elast'.op \in DispatchOps /\ elast'.at = EI /\ elast'.line = ECur
          /\ ECur = <<"bots", ":">> => (elast'.op = "bots" /\ botsDB'.has)
          /\ ECur = <<":", "Hsx", ":">> => elast'.op = "hsx"
    ]_vars

\* a bots: header right after a record table, and a :Hsx: header right after
\* the fields of a storage block, have been dispatched
C23_Witness ==
  /\ stack # <<>> /\ elast.at >= 3
  /\ \/ /\ elast.op = "bots" /\ StartsRecord(ELines[elast.at - 1])
        /\ Len(botsDB.records) >= 1
     \/ /\ elast.op = "hsx" /\ Includes(ELines[elast.at - 1], <<"=">>)
        /\ storages # EmptyReg

====
